---- MODULE Spec2Model ----
(***************************************************************************)
(* diesel/src/query_builder/select_statement/mod.rs                        *)
(*                                                                         *)
(* SelectStatement<F, S, D, W, O, L, Of, G>: construction (new, simple),   *)
(* the two QueryFragment impls (with a source, and with `()` as source),   *)
(* the Query / Expression SqlType declarations and the query id.           *)
(***************************************************************************)
EXTENDS Integers, Sequences, FiniteSets, TLC

\* Number of distinct literal values a bound clause (WHERE, LIMIT) can hold.
MaxLit == 2
\* Number of slot replacements applied to a pair of statements (SpecId).
MaxEdits == 2

Backends == {"Pg", "Sqlite"}
Tables == {"users", "posts"}

VARIABLES
    args,      \* the eight values handed to SelectStatement::new, in parameter order
    stmt,      \* the SelectStatement (self of every render)
    ctor,      \* "new" or "simple": the constructor that built stmt
    pc,        \* "idle" | "run" | "done": position of the render call
    mode,      \* "to_sql" | "walk_ast"
    db,        \* the backend DB of the running QueryFragment<DB> impl
    ip,        \* index of the next statement of the method body
    out,       \* the caller's output: DB::QueryBuilder or AstPass<DB>
    trace,     \* slot renderers invoked so far by the running call
    result,    \* value returned by the call
    prev,      \* <<>> or <<r>>: the first completed render of stmt
    postgres,  \* cfg(feature = "postgres") of the build
    qtype,     \* <SelectStatement as Query>::SqlType, once resolved
    etype,     \* <SelectStatement as Expression>::SqlType, once resolved
    other,     \* a second statement (SpecId)
    edits,     \* number of statements built so far in SpecId
    ids        \* <<query id of stmt, query id of other>>, once computed

vars == <<args, stmt, ctor, pc, mode, db, ip, out, trace, result, prev,
          postgres, qtype, etype, other, edits, ids>>

---------------------------------------------------------------------------
(* Slot values.  A value is [ty, v]: its Rust type and, for a clause that  *)
(* holds a bound literal, the literal.                                     *)

Val(t, n) == [ty |-> t, v |-> n]

DefaultSelectClause == Val("DefaultSelectClause", 0)
NoDistinctClause == Val("NoDistinctClause", 0)
NoWhereClause == Val("NoWhereClause", 0)
NoOrderClause == Val("NoOrderClause", 0)
NoLimitClause == Val("NoLimitClause", 0)
NoOffsetClause == Val("NoOffsetClause", 0)
NoGroupByClause == Val("NoGroupByClause", 0)

\* The no-source marker `()` of the second QueryFragment impl.
NoSource == Val("()", 0)

Lits == 1..MaxLit

SelectValues == {DefaultSelectClause, Val("SelectClause<Sql>", 0),
                 Val("SelectClause<Unsupported>", 0)}
FromValues == {Val(t, 0) : t \in Tables} \cup {NoSource}
DistinctValues == {NoDistinctClause, Val("DistinctClause", 0)}
WhereValues == {NoWhereClause, Val("WhereClause<SqliteUnsupported>", 0)}
                   \cup {Val("WhereClause<Eq>", n) : n \in Lits}
OrderValues == {NoOrderClause, Val("OrderClause", 0)}
LimitValues == {NoLimitClause} \cup {Val("LimitClause", n) : n \in Lits}
OffsetValues == {NoOffsetClause, Val("OffsetClause", 1),
                 Val("OffsetClause<Unsupported>", 0)}
GroupByValues == {NoGroupByClause, Val("GroupByClause", 0)}

---------------------------------------------------------------------------
(* Construction.                                                           *)

\* The struct: one field per slot, every field always populated.
SelectStatement ==
    [select : SelectValues, from : FromValues, distinct : DistinctValues,
     where_clause : WhereValues, order : OrderValues, limit : LimitValues,
     offset : OffsetValues, group_by : GroupByValues]

\* [mutant] new with the order and group_by arguments stored in each other's
\* field.
new_swapped(select, from, distinct, where_clause, order, limit, offset, group_by) ==
    [select |-> select, from |-> from, distinct |-> distinct,
     where_clause |-> where_clause, order |-> group_by, limit |-> limit,
     offset |-> offset, group_by |-> order]

\* SelectStatement::new(select, from, distinct, where_clause, order, limit,
\* offset, group_by): every argument goes to the field of its name.
new(select, from, distinct, where_clause, order, limit, offset, group_by) ==
    [select |-> select, from |-> from, distinct |-> distinct,
     where_clause |-> where_clause, order |-> order, limit |-> limit,
     offset |-> offset, group_by |-> group_by]

\* The argument tuple of simple(from), in new's parameter order.
simple_args(from) ==
    <<DefaultSelectClause, from, NoDistinctClause, NoWhereClause,
      NoOrderClause, NoLimitClause, NoOffsetClause, NoGroupByClause>>

\* Calling new on an argument tuple.
apply_new(a) == new(a[1], a[2], a[3], a[4], a[5], a[6], a[7], a[8])

\* SelectStatement::simple(from)
simple(from) == apply_new(simple_args(from))

\* The impls' where-clauses: S: SelectClauseQueryFragment<F, DB> with
\* F: QuerySource, or S: SelectClauseQueryFragment<(), DB>.  The default
\* select clause selects the source's columns and needs a source.
Renderable(a) == ~(a[1] = DefaultSelectClause /\ a[2] = NoSource)

ArgTuples ==
    {a \in SelectValues \X FromValues \X DistinctValues \X WhereValues
           \X OrderValues \X LimitValues \X OffsetValues \X GroupByValues :
        Renderable(a)}

---------------------------------------------------------------------------
(* The clause slot contract: what the composite calls into.  A slot's      *)
(* renderer either fails, leaving the output alone, or appends its text    *)
(* (and, in the structured walk, its bound values).                        *)

Ok == [ok |-> TRUE, err |-> ""]
Err(e) == [ok |-> FALSE, err |-> e]
NoResult == [ok |-> FALSE, err |-> "(running)"]

\* DB::QueryBuilder::new() / a new AstPass<DB>.
FreshOut == [sql |-> <<>>, binds |-> <<>>, nparams |-> 0]

\* The n-th bind placeholder of a backend.
Placeholder(d, n) == IF d = "Pg" THEN <<"$1", "$2", "$3">>[n] ELSE "?"

\* The literals a slot value binds.
BindValues(val) ==
    IF val.ty \in {"WhereClause<Eq>", "WhereClause<SqliteUnsupported>",
                   "LimitClause", "OffsetClause"}
    THEN <<val.v>> ELSE <<>>

\* Whether the renderer of a slot value fails for backend d.
Fails(val, d) ==
    \/ val.ty \in {"SelectClause<Unsupported>", "OffsetClause<Unsupported>"}
    \/ val.ty = "WhereClause<SqliteUnsupported>" /\ d = "Sqlite"

\* The SQL text of a slot value; n placeholders are in the output already.
\* The select clause is given the source (from); the sentinels are empty.
Text(val, from, d, n) ==
    CASE val.ty = "DefaultSelectClause" -> <<from.ty \o ".*">>
      [] val.ty = "SelectClause<Sql>" -> <<"1">>
      [] val.ty = "DistinctClause" -> <<"DISTINCT ">>
      [] val.ty \in Tables -> <<val.ty>>
      [] val.ty = "WhereClause<Eq>" ->
             <<" WHERE ", "status = ", Placeholder(d, n + 1)>>
      [] val.ty = "WhereClause<SqliteUnsupported>" ->
             <<" WHERE ", "name ILIKE ", Placeholder(d, n + 1)>>
      [] val.ty = "GroupByClause" -> <<" GROUP BY ", "status">>
      [] val.ty = "OrderClause" -> <<" ORDER BY ", "id">>
      [] val.ty = "LimitClause" -> <<" LIMIT ", Placeholder(d, n + 1)>>
      [] val.ty = "OffsetClause" -> <<" OFFSET ", Placeholder(d, n + 1)>>
      [] OTHER -> <<>>

\* <slot>.to_sql(out): text and placeholders only.
slot_to_sql(val, from, d, o) ==
    IF Fails(val, d) THEN [res |-> Err(val.ty), out |-> o]
    ELSE [res |-> Ok,
          out |-> [sql |-> o.sql \o Text(val, from, d, o.nparams),
                   binds |-> o.binds,
                   nparams |-> o.nparams + Len(BindValues(val))]]

\* <slot>.walk_ast(pass): the same text, and the bound values.
slot_walk_ast(val, from, d, o) ==
    IF Fails(val, d) THEN [res |-> Err(val.ty), out |-> o]
    ELSE [res |-> Ok,
          out |-> [sql |-> o.sql \o Text(val, from, d, o.nparams),
                   binds |-> o.binds \o BindValues(val),
                   nparams |-> o.nparams + Len(BindValues(val))]]

---------------------------------------------------------------------------
(* The four method bodies, statement by statement.                         *)

push_sql(s) == [op |-> "push_sql", arg |-> s]
try(slot) == [op |-> "try", arg |-> slot]
ReturnOk == [op |-> "Ok", arg |-> ""]

\* [mutant] to_sql with the ORDER BY clause rendered before GROUP BY.
ToSqlBody_order_first ==
    << push_sql("SELECT "), try("distinct"), try("select"),
       push_sql(" FROM "), try("from"), try("where_clause"),
       try("order"), try("group_by"), try("limit"), try("offset"),
       ReturnOk >>

\* [mutant] to_sql without the " FROM " separator.
ToSqlBody_no_separator ==
    << push_sql("SELECT "), try("distinct"), try("select"),
       try("from"), try("where_clause"),
       try("group_by"), try("order"), try("limit"), try("offset"),
       ReturnOk >>

\* [mutant] to_sql that pushes the keyword on the first render only.
ToSqlBody_keyword_once ==
    (IF prev = <<>> THEN << push_sql("SELECT ") >> ELSE << >>) \o
    << try("distinct"), try("select"),
       push_sql(" FROM "), try("from"), try("where_clause"),
       try("group_by"), try("order"), try("limit"), try("offset"),
       ReturnOk >>

\* impl QueryFragment<DB> for SelectStatement<F, ..>, F: QuerySource: to_sql
ToSqlBody ==
    << push_sql("SELECT "), try("distinct"), try("select"),
       push_sql(" FROM "), try("from"), try("where_clause"),
       try("group_by"), try("order"), try("limit"), try("offset"),
       ReturnOk >>

\* ... and walk_ast
WalkAstBody ==
    << try("distinct"), try("select"), try("from"), try("where_clause"),
       try("group_by"), try("order"), try("limit"), try("offset"),
       ReturnOk >>

\* [mutant] the table-less to_sql with the " FROM " separator left in.
ToSqlBodyNoFrom_separator ==
    << push_sql("SELECT "), try("distinct"), try("select"),
       push_sql(" FROM "), try("where_clause"),
       try("group_by"), try("order"), try("limit"), try("offset"),
       ReturnOk >>

\* impl QueryFragment<DB> for SelectStatement<(), ..>: to_sql
ToSqlBodyNoFrom ==
    << push_sql("SELECT "), try("distinct"), try("select"),
       try("where_clause"),
       try("group_by"), try("order"), try("limit"), try("offset"),
       ReturnOk >>

\* ... and walk_ast
WalkAstBodyNoFrom ==
    << try("distinct"), try("select"), try("where_clause"),
       try("group_by"), try("order"), try("limit"), try("offset"),
       ReturnOk >>

\* Impl selection by the type of the from slot.
Body(self, m) ==
    IF self.from = NoSource
    THEN (IF m = "to_sql" THEN ToSqlBodyNoFrom ELSE WalkAstBodyNoFrom)
    ELSE (IF m = "to_sql" THEN ToSqlBody ELSE WalkAstBody)

\* The call a try(slot) statement makes: self.<slot>.to_sql(out) or
\* .walk_ast(pass); the select clause also gets &self.from (or &()), the
\* from slot is rendered through from_clause().
call_slot(self, m, slot, d, o) ==
    IF m = "to_sql" THEN slot_to_sql(self[slot], self.from, d, o)
    ELSE slot_walk_ast(self[slot], self.from, d, o)

\* [mutant] a failure that is dropped instead of returned.
try_returns_never(res) == FALSE

\* try!(e) and e?: an Err leaves the method at once with that Err.
try_returns(res) == ~res.ok

---------------------------------------------------------------------------
(* Declared SQL types and the query id.                                    *)

NoType == [array |-> FALSE, of |-> "(unresolved)"]
Array(t) == [array |-> TRUE, of |-> t.of]

\* S::SelectClauseSqlType for S: SelectClauseExpression<F>.  The default
\* select clause has the type of the source's columns.
SelectClauseSqlType(S, F) ==
    IF S.ty = "DefaultSelectClause"
    THEN [array |-> FALSE, of |-> F.ty \o "::SqlType"]
    ELSE [array |-> FALSE, of |-> S.ty \o "::SqlType"]

\* impl Query for SelectStatement: type SqlType
QuerySqlType(self) == SelectClauseSqlType(self.select, self.from)

\* [mutant] the two cfg attributes exchanged.
ExpressionSqlType_cfg_swapped(self, feature) ==
    IF feature THEN SelectClauseSqlType(self.select, self.from)
    ELSE Array(SelectClauseSqlType(self.select, self.from))

\* impl Expression for SelectStatement: type SqlType, under
\* #[cfg(feature = "postgres")] and #[cfg(not(feature = "postgres"))]
ExpressionSqlType(self, feature) ==
    IF feature THEN Array(SelectClauseSqlType(self.select, self.from))
    ELSE SelectClauseSqlType(self.select, self.from)

\* [mutant] the macro invoked without the limit parameter.
QueryIdParams_no_limit(self) ==
    << self.from.ty, self.select.ty, self.distinct.ty, self.where_clause.ty,
       self.order.ty, self.offset.ty, self.group_by.ty >>

\* impl_query_id!(SelectStatement<F, S, D, W, O, L, Of, G>): the type
\* parameters handed to the macro.
QueryIdParams(self) ==
    << self.from.ty, self.select.ty, self.distinct.ty, self.where_clause.ty,
       self.order.ty, self.limit.ty, self.offset.ty, self.group_by.ty >>

\* What the macro generates: an id made of the type and its parameters' ids.
impl_query_id(name, params) == <<name>> \o params

query_id(self) == impl_query_id("SelectStatement", QueryIdParams(self))

---------------------------------------------------------------------------
(* Rendering: a call of to_sql or walk_ast on stmt, one statement a step.  *)

renderVars == <<pc, mode, db, ip, out, trace, result, prev>>
typeVars == <<postgres, qtype, etype>>
idVars == <<other, edits, ids>>

InitRest ==
    /\ pc = "idle" /\ mode = "none" /\ db = "none" /\ ip = 0
    /\ out = FreshOut /\ trace = <<>> /\ result = NoResult /\ prev = <<>>
    /\ postgres = FALSE /\ qtype = NoType /\ etype = NoType
    /\ other = stmt /\ edits = 0 /\ ids = <<>>

Init ==
    /\ \/ /\ ctor = "new"
          /\ args \in ArgTuples
          /\ stmt = apply_new(args)
       \/ /\ ctor = "simple"
          /\ \E t \in Tables :
                /\ args = simple_args(Val(t, 0))
                /\ stmt = simple(Val(t, 0))
    /\ InitRest

Enter(m, d) ==
    /\ pc = "idle"
    /\ pc' = "run" /\ mode' = m /\ db' = d /\ ip' = 1
    /\ out' = FreshOut /\ trace' = <<>> /\ result' = NoResult
    /\ UNCHANGED <<args, stmt, ctor, prev, typeVars, idVars>>

\* The caller invokes stmt.to_sql(&mut out) with a new query builder.
to_sql(d) == Enter("to_sql", d)

\* The caller invokes stmt.walk_ast(&mut pass) with a new pass.
walk_ast(d) == Enter("walk_ast", d)

Current == Body(stmt, mode)[ip]

\* out.push_sql(s)
ExecPushSql ==
    /\ pc = "run" /\ Current.op = "push_sql"
    /\ out' = [out EXCEPT !.sql = Append(@, Current.arg)]
    /\ ip' = ip + 1
    /\ UNCHANGED <<args, stmt, ctor, pc, mode, db, trace, result, prev,
                   typeVars, idVars>>

\* try!(self.<slot>.to_sql(out)) / self.<slot>.walk_ast(pass)?
ExecTry ==
    /\ pc = "run" /\ Current.op = "try"
    /\ LET r == call_slot(stmt, mode, Current.arg, db, out) IN
         /\ out' = r.out
         /\ trace' = Append(trace, Current.arg)
         /\ IF try_returns(r.res)
            THEN /\ result' = r.res /\ pc' = "done" /\ ip' = ip
            ELSE /\ result' = result /\ pc' = pc /\ ip' = ip + 1
    /\ UNCHANGED <<args, stmt, ctor, mode, db, prev, typeVars, idVars>>

\* Ok(())
ExecOk ==
    /\ pc = "run" /\ Current.op = "Ok"
    /\ result' = Ok /\ pc' = "done"
    /\ UNCHANGED <<args, stmt, ctor, mode, db, ip, out, trace, prev,
                   typeVars, idVars>>

Outcome == [mode |-> mode, db |-> db, out |-> out, result |-> result]

\* The caller takes the result and the output; the first outcome is kept
\* for comparison with later renders of the same statement.
Return ==
    /\ pc = "done"
    /\ pc' = "idle"
    /\ prev' = IF prev = <<>> THEN <<Outcome>> ELSE prev
    /\ mode' = "none" /\ db' = "none" /\ ip' = 0
    /\ out' = FreshOut /\ trace' = <<>> /\ result' = NoResult
    /\ UNCHANGED <<args, stmt, ctor, typeVars, idVars>>

Next ==
    \/ \E d \in Backends : to_sql(d)
    \/ \E d \in Backends : walk_ast(d)
    \/ ExecPushSql
    \/ ExecTry
    \/ ExecOk
    \/ Return

Spec == Init /\ [][Next]_vars

---------------------------------------------------------------------------
(* SpecType: the SqlType declarations of a statement in a build.           *)

InitType ==
    /\ ctor = "new" /\ args \in ArgTuples /\ stmt = apply_new(args)
    /\ pc = "idle" /\ mode = "none" /\ db = "none" /\ ip = 0
    /\ out = FreshOut /\ trace = <<>> /\ result = NoResult /\ prev = <<>>
    /\ postgres \in BOOLEAN /\ qtype = NoType /\ etype = NoType
    /\ other = stmt /\ edits = 0 /\ ids = <<>>

ResolveQuerySqlType ==
    /\ qtype = NoType
    /\ qtype' = QuerySqlType(stmt)
    /\ UNCHANGED <<args, stmt, ctor, renderVars, postgres, etype, idVars>>

ResolveExpressionSqlType ==
    /\ etype = NoType
    /\ etype' = ExpressionSqlType(stmt, postgres)
    /\ UNCHANGED <<args, stmt, ctor, renderVars, postgres, qtype, idVars>>

NextType == ResolveQuerySqlType \/ ResolveExpressionSqlType

SpecType == InitType /\ [][NextType]_vars

---------------------------------------------------------------------------
(* SpecId: two statements, rebuilt slot by slot, and their query ids.      *)

Slots == <<"select", "from", "distinct", "where_clause", "order", "limit",
           "offset", "group_by">>

SlotValues ==
    [select |-> SelectValues, from |-> FromValues,
     distinct |-> DistinctValues, where_clause |-> WhereValues,
     order |-> OrderValues, limit |-> LimitValues, offset |-> OffsetValues,
     group_by |-> GroupByValues]

\* The arguments that rebuild self with one slot replaced.
ArgsOf(self) == [i \in 1..8 |-> self[Slots[i]]]

InitId ==
    /\ ctor = "simple"
    /\ \E t \in Tables :
          /\ args = simple_args(Val(t, 0)) /\ stmt = simple(Val(t, 0))
    /\ \E t \in Tables : other = simple(Val(t, 0))
    /\ pc = "idle" /\ mode = "none" /\ db = "none" /\ ip = 0
    /\ out = FreshOut /\ trace = <<>> /\ result = NoResult /\ prev = <<>>
    /\ postgres = FALSE /\ qtype = NoType /\ etype = NoType
    /\ edits = 0 /\ ids = <<>>

\* A new statement built by new from stmt's slots with slot i replaced.
RebuildStmt ==
    /\ edits < MaxEdits
    /\ \E i \in 1..8 : \E v \in SlotValues[Slots[i]] :
          /\ v # stmt[Slots[i]]
          /\ args' = [ArgsOf(stmt) EXCEPT ![i] = v]
          /\ stmt' = apply_new(args')
    /\ ctor' = "new" /\ edits' = edits + 1 /\ ids' = <<>>
    /\ UNCHANGED <<renderVars, typeVars, other>>

\* The same for the second statement.
RebuildOther ==
    /\ edits < MaxEdits
    /\ \E i \in 1..8 : \E v \in SlotValues[Slots[i]] :
          /\ v # other[Slots[i]]
          /\ other' = apply_new([ArgsOf(other) EXCEPT ![i] = v])
    /\ edits' = edits + 1 /\ ids' = <<>>
    /\ UNCHANGED <<args, stmt, ctor, renderVars, typeVars>>

\* The cache asks both statements for their query id.
TakeQueryIds ==
    /\ ids = <<>>
    /\ ids' = <<query_id(stmt), query_id(other)>>
    /\ UNCHANGED <<args, stmt, ctor, renderVars, typeVars, other, edits>>

NextId == RebuildStmt \/ RebuildOther \/ TakeQueryIds

SpecId == InitId /\ [][NextId]_vars

---------------------------------------------------------------------------
(* Properties.                                                             *)

IsPrefix(s, t) == Len(s) <= Len(t) /\ SubSeq(t, 1, Len(s)) = s

\* The clause order the statement is documented to render in.
FixedOrder == <<"distinct", "select", "from", "where_clause", "group_by",
                "order", "limit", "offset">>
TableLessOrder == <<"distinct", "select", "where_clause", "group_by",
                    "order", "limit", "offset">>
ExpectedOrder == IF stmt.from = NoSource THEN TableLessOrder ELSE FixedOrder

SlotRank(slot) == CHOOSE i \in 1..8 : FixedOrder[i] = slot

\* The clause a token of SQL text opens, 0 for a token inside a clause.
TokenRank(t) ==
    CASE t = "DISTINCT " -> 1
      [] t \in {"1"} \cup {tb \o ".*" : tb \in Tables} -> 2
      [] t = " FROM " \/ t \in Tables -> 3
      [] t = " WHERE " -> 4
      [] t = " GROUP BY " -> 5
      [] t = " ORDER BY " -> 6
      [] t = " LIMIT " -> 7
      [] t = " OFFSET " -> 8
      [] OTHER -> 0

NotKeyword(t) == t \notin {"SELECT ", " FROM "}

\* The constructor arguments in clause order: distinct, select, from, where,
\* group_by, order, limit, offset (positions in new's parameter list).
ArgsInClauseOrder ==
    IF args[2] = NoSource
    THEN <<args[3], args[1], args[4], args[8], args[5], args[6], args[7]>>
    ELSE <<args[3], args[1], args[2], args[4], args[8], args[5], args[6],
           args[7]>>

RECURSIVE ClauseText(_, _, _, _)
\* The text of the first k of vals, one after the other.
ClauseText(vals, k, from, d) ==
    IF k = 0 THEN FreshOut
    ELSE slot_walk_ast(vals[k], from, d, ClauseText(vals, k - 1, from, d)).out

Present(slot) == stmt[slot].ty \notin
    {"NoDistinctClause", "NoWhereClause", "NoOrderClause", "NoLimitClause",
     "NoOffsetClause", "NoGroupByClause"}

\* C1: in both renderings the slot renderers are invoked in the order
\* distinct, select, from, where, group_by, order, limit, offset, and the
\* clauses found in the output are in that order and are those of the
\* constructor's arguments, whatever the position of each argument in new.
C1_FixedOrder ==
    /\ \A i, j \in DOMAIN trace :
          i < j => SlotRank(trace[i]) < SlotRank(trace[j])
    /\ \A i, j \in DOMAIN out.sql :
          (i < j /\ TokenRank(out.sql[i]) # 0 /\ TokenRank(out.sql[j]) # 0)
              => TokenRank(out.sql[i]) <= TokenRank(out.sql[j])
    /\ (pc = "done" /\ result.ok) =>
          /\ trace = ExpectedOrder
          /\ SelectSeq(out.sql, NotKeyword) =
                ClauseText(ArgsInClauseOrder, Len(ArgsInClauseOrder),
                           args[2], db).sql

C1_Witness ==
    /\ pc = "done" /\ result.ok /\ mode = "to_sql"
    /\ stmt.from # NoSource
    /\ \A slot \in {"distinct", "where_clause", "group_by", "order",
                    "limit", "offset"} : Present(slot)

\* C2 (as claimed): for one statement and one backend, the text accumulated
\* by walk_ast equals the text produced by to_sql, `SELECT ` and ` FROM `
\* included.
C2_SameText ==
    (/\ pc = "done" /\ prev # <<>>
     /\ prev[1].db = db /\ prev[1].mode # mode
     /\ result.ok /\ prev[1].result.ok)
        => out.sql = prev[1].out.sql

\* C3 (as claimed): when a render returns a failure the caller's output is
\* as it was before the call.
C3_AllOrNothing ==
    (pc = "done" /\ ~result.ok) => out = FreshOut

\* C4: with `()` as source neither rendering emits ` FROM ` or invokes a
\* from-fragment renderer, and the other seven slots are rendered once each
\* in the fixed order (up to the first failure).
C4_TableLess ==
    stmt.from = NoSource =>
        /\ \A i \in DOMAIN out.sql : out.sql[i] # " FROM "
        /\ \A i \in DOMAIN trace : trace[i] # "from"
        /\ IsPrefix(trace, TableLessOrder)
        /\ (pc = "done" /\ result.ok) => trace = TableLessOrder

C4_Witness ==
    /\ stmt.from = NoSource /\ pc = "done" /\ result.ok /\ mode = "to_sql"
    /\ Present("where_clause") /\ Present("limit")

SimpleText ==
    <<"SELECT ">> \o Text(DefaultSelectClause, stmt.from, db, 0)
        \o <<" FROM ">> \o Text(stmt.from, stmt.from, db, 0)

\* C5: simple(from) holds the default select clause and the sentinel in
\* every other slot, and its to_sql text is `SELECT `, the default select
\* list, ` FROM `, the from-fragment, and nothing after it.
C5_Simple ==
    ctor = "simple" =>
        /\ stmt.from = args[2] /\ stmt.from.ty \in Tables
        /\ stmt.select = DefaultSelectClause
        /\ stmt.distinct = NoDistinctClause
        /\ stmt.where_clause = NoWhereClause
        /\ stmt.order = NoOrderClause
        /\ stmt.limit = NoLimitClause
        /\ stmt.offset = NoOffsetClause
        /\ stmt.group_by = NoGroupByClause
        /\ mode = "to_sql" =>
              /\ IsPrefix(out.sql, SimpleText)
              /\ (pc = "done" /\ result.ok) => out.sql = SimpleText

C5_Witness ==
    ctor = "simple" /\ mode = "to_sql" /\ pc = "done" /\ result.ok

\* The statements that differ from stmt in one slot other than `skip`.
Variants(skip) ==
    {apply_new([ArgsOf(stmt) EXCEPT ![i] = v]) :
        <<i, v>> \in UNION {{<<i, v>> : v \in SlotValues[Slots[i]]} :
                               i \in (1..8) \ skip}}

SelectListType == SelectClauseSqlType(stmt.select, stmt.from)

Wrapped(t) == IF postgres THEN Array(t) ELSE t

\* C6 (as claimed): every SqlType the statement declares is the select
\* list's type, or Array of it in a postgres build, and whether it is
\* wrapped is the same whatever the other seven slots hold.
C6_DeclaredTypeByBackend ==
    /\ \A t \in {qtype, etype} : t # NoType => t = Wrapped(SelectListType)
    /\ \A c \in Variants({1}) :
          /\ qtype # NoType => QuerySqlType(c).array = qtype.array
          /\ etype # NoType =>
                ExpressionSqlType(c, postgres).array = etype.array

\* C6 (amended): the SqlType declared as an Expression is the select list's
\* type, or Array of it in a postgres build; the SqlType declared as a Query
\* is the select list's type in every build; whether either is wrapped is
\* the same whatever the other seven slots hold.
C6_DeclaredType ==
    /\ qtype # NoType => qtype = SelectListType
    /\ etype # NoType => etype = Wrapped(SelectListType)
    /\ \A c \in Variants({1}) :
          /\ qtype # NoType => QuerySqlType(c).array = qtype.array
          /\ etype # NoType =>
                ExpressionSqlType(c, postgres).array = etype.array

C6_Witness ==
    /\ postgres /\ qtype # NoType /\ etype # NoType
    /\ etype.array /\ ~qtype.array
    /\ Present("limit")

SameSlotTypes ==
    \A i \in 1..8 : stmt[Slots[i]].ty = other[Slots[i]].ty

C9_FailFast ==
    /\ IsPrefix(trace, ExpectedOrder)
    /\ \A i \in DOMAIN trace :
          Fails(stmt[trace[i]], db) => (i = Len(trace) /\ pc = "done")
    /\ pc = "done" =>
          IF result.ok
          THEN /\ trace = ExpectedOrder
               /\ \A i \in DOMAIN trace : ~Fails(stmt[trace[i]], db)
          ELSE /\ trace # <<>>
               /\ Fails(stmt[trace[Len(trace)]], db)
               /\ result = Err(stmt[trace[Len(trace)]].ty)

C9_Witness ==
    /\ pc = "done" /\ ~result.ok /\ mode = "walk_ast"
    /\ trace = <<"distinct", "select", "from", "where_clause">>
    /\ Fails(stmt.offset, db)

SlotsAsConstructed ==
    /\ stmt.select = args[1] /\ stmt.from = args[2]
    /\ stmt.distinct = args[3] /\ stmt.where_clause = args[4]
    /\ stmt.order = args[5] /\ stmt.limit = args[6]
    /\ stmt.offset = args[7] /\ stmt.group_by = args[8]

\* What a step of a render may write: the call's own output and position.
RenderFrame ==
    /\ stmt' = stmt /\ args' = args /\ ctor' = ctor
    /\ (pc = "run" /\ prev # <<>>) => prev' = prev

\* C10: whatever renders have run and however they ended, the eight slots
\* hold the values given to the constructor, and no step of a render
\* writes anything but the output of that call.
C10_Immutable ==
    []SlotsAsConstructed /\ [][RenderFrame]_vars

C10_Witness ==
    /\ prev # <<>> /\ ~prev[1].result.ok /\ pc = "done" /\ result.ok
    /\ Present("order") /\ ~Present("group_by")

====
